---------------------------- MODULE Spec2Model ----------------------------
(***************************************************************************)
(* A model of kamin1.py, the chapter 1 interpreter of kaminpy (Python 2):  *)
(* tokenizer, reader, evaluator with its special forms, and the            *)
(* read-eval-print loop.                                                   *)
(*                                                                         *)
(* Python values are tagged records, so that isinstance() and callable()   *)
(* are tests on the tag:                                                   *)
(*   int        [tag |-> "int",  n |-> 3]                                  *)
(*   str        [tag |-> "str",  s |-> <<"i", "f">>]   (a symbol)          *)
(*   list       [tag |-> "list", items |-> << ... >>]                      *)
(*   function   [tag |-> "op",   name |-> <<"+">>]     (a callable)        *)
(* A Python string is the sequence of its characters.  Integer literals    *)
(* are drawn from the range of the machine int (Python 2 turns larger      *)
(* literals into long, which is outside this model).                       *)
(***************************************************************************)
EXTENDS Integers, Sequences, FiniteSets, TLC

VARIABLES
    source_code,   \* reader: the text handed to tokenize
    tokens,        \* reader: the mutable token list read() pops from
    parsed,        \* reader: the expressions returned by the calls of read so far
    consumed,      \* reader: how many tokens each successful call of read popped
    read_exc,      \* reader: the exception the last call of read raised, or "none"
    shown,         \* reader: the lines print_cmd wrote for the read expressions
    expression,    \* evaluator: the expression handed to evaluate
    result,        \* evaluator: what evaluate returned or raised, and the sink
    pc,            \* repl: "prompt", "exited" (SystemExit) or "crashed"
    line,          \* repl: the last line raw_input returned
    event,         \* repl: what the last raw_input call produced
    stdout         \* repl: the lines printed so far

vars == <<source_code, tokens, parsed, consumed, read_exc, shown,
          expression, result, pc, line, event, stdout>>

readerVars == <<source_code, tokens, parsed, consumed, read_exc, shown>>
evalVars == <<expression, result>>
replVars == <<pc, line, event, stdout>>

(***************************************************************************)
(* Bounds of the model.                                                    *)
(***************************************************************************)
MaxText == 5     \* longest source text of the reader specification
MaxArgs == 4     \* most elements after the head in an enumerated list
MaxLines == 6    \* lines the loop prints before the model stops reading

(***************************************************************************)
(* Python values.                                                          *)
(***************************************************************************)
I(n) == [tag |-> "int", n |-> n]
S(s) == [tag |-> "str", s |-> s]
L(items) == [tag |-> "list", items |-> items]
Op(name) == [tag |-> "op", name |-> name]
None == [tag |-> "None"]

SPACE == " "
LPAREN == <<"(">>
RPAREN == <<")">>

DigitChars == <<"0", "1", "2", "3", "4", "5", "6", "7", "8", "9">>
Digits == {DigitChars[i] : i \in 1..Len(DigitChars)}
DigitVal(c) == (CHOOSE i \in 1..Len(DigitChars) : DigitChars[i] = c) - 1

(***************************************************************************)
(* tokenize: source_code.replace('(',' ( ').replace(')',' ) ').split()     *)
(***************************************************************************)
RECURSIVE replace(_, _, _)
replace(s, old, new) ==
    IF Len(s) = 0 THEN <<>>
    ELSE (IF Head(s) = old THEN new ELSE <<Head(s)>>) \o replace(Tail(s), old, new)

RECURSIVE split_from(_, _, _)
split_from(s, word, words) ==
    IF Len(s) = 0
    THEN IF Len(word) = 0 THEN words ELSE Append(words, word)
    ELSE IF Head(s) = SPACE
         THEN split_from(Tail(s), <<>>,
                         IF Len(word) = 0 THEN words ELSE Append(words, word))
         ELSE split_from(Tail(s), Append(word, Head(s)), words)

split(s) == split_from(s, <<>>, <<>>)

tokenize(text) ==
    split(replace(replace(text, "(", <<" ", "(", " ">>), ")", <<" ", ")", " ">>))

(***************************************************************************)
(* atom: REGEX_INTEGER = -?\d+$ decides; int(token) converts.              *)
(***************************************************************************)
REGEX_INTEGER_match(token) ==
    LET body == IF Len(token) > 0 /\ token[1] = "-" THEN Tail(token) ELSE token
    IN  Len(body) >= 1 /\ \A i \in 1..Len(body) : body[i] \in Digits

RECURSIVE int_digits(_, _)
int_digits(body, acc) ==
    IF Len(body) = 0 THEN acc
    ELSE int_digits(Tail(body), 10 * acc + DigitVal(Head(body)))

int(token) ==
    IF token[1] = "-" THEN 0 - int_digits(Tail(token), 0)
    ELSE int_digits(token, 0)

atom_drops_sign(token) ==
    IF REGEX_INTEGER_match(token)
    THEN I(int_digits(IF token[1] = "-" THEN Tail(token) ELSE token, 0))
    ELSE S(token)

atom(token) ==
    IF REGEX_INTEGER_match(token) THEN I(int(token)) ELSE S(token)

(***************************************************************************)
(* read: returns [exc, value, tokens], tokens being the list as the call   *)
(* left it (read pops from the caller's list).                             *)
(***************************************************************************)
ReadReturn(value, toks) == [exc |-> "none", value |-> value, tokens |-> toks]
ReadRaise(exc, toks) == [exc |-> exc, value |-> None, tokens |-> toks]

RECURSIVE read(_)
RECURSIVE read_while(_, _)

read_while_keeps_paren(toks, items) ==
    IF toks[1] # RPAREN
    THEN LET r == read(toks)
         IN  IF r.exc # "none" THEN r
             ELSE IF Len(r.tokens) = 0
                  THEN ReadRaise("UnexpectedEndOfInput", r.tokens)
                  ELSE read_while(r.tokens, Append(items, r.value))
    ELSE ReadReturn(L(items), toks)

\* the loop of lines 83-88, entered with a non-empty token list
read_while(toks, items) ==
    IF toks[1] # RPAREN
    THEN LET r == read(toks)
         IN  IF r.exc # "none" THEN r
             ELSE IF Len(r.tokens) = 0
                  THEN ReadRaise("UnexpectedEndOfInput", r.tokens)
                  ELSE read_while(r.tokens, Append(items, r.value))
    ELSE ReadReturn(L(items), Tail(toks))

read(toks) ==
    IF Len(toks) = 0 THEN ReadRaise("UnexpectedEndOfInput", toks)
    ELSE LET token == Head(toks)
             rest == Tail(toks)
         IN  IF token = LPAREN
             THEN IF Len(rest) = 0
                  THEN ReadRaise("UnexpectedEndOfInput", rest)
                  ELSE read_while(rest, <<>>)
             ELSE IF token = RPAREN
                  THEN ReadRaise("UnexpectedRightParen", rest)
                  ELSE ReadReturn(atom(token), rest)

parse(text) == read(tokenize(text))

(***************************************************************************)
(* '%s' % value and print(value): the decimal text of an int.  A function  *)
(* renders as "<function ...>" with its address; the model keeps one       *)
(* opaque piece of text per operator.                                      *)
(***************************************************************************)
RECURSIVE decimal(_)
decimal(n) ==
    IF n < 10 THEN <<DigitChars[n + 1]>>
    ELSE decimal(n \div 10) \o <<DigitChars[(n % 10) + 1]>>

str(value) ==
    IF value.tag = "int"
    THEN IF value.n < 0 THEN <<"-">> \o decimal(0 - value.n) ELSE decimal(value.n)
    ELSE <<"<function ">> \o value.name \o <<">">>

(***************************************************************************)
(* The operator table (lines 101-109).  op.add, op.sub, op.mul and op.div  *)
(* are built-in functions, the three comparisons are lambdas.              *)
(***************************************************************************)
OperatorNames == {<<"+">>, <<"-">>, <<"*">>, <<"/">>, <<"=">>, <<"<">>, <<">">>}
operators == [name \in OperatorNames |-> Op(name)]

TypeName(value) ==
    IF value.tag = "int" THEN "int"
    ELSE IF value.name \in {<<"+">>, <<"-">>, <<"*">>, <<"/">>}
         THEN "builtin_function_or_method"
         ELSE "function"

\* Python 2 floor division of ints, b # 0
floordiv(a, b) == IF b > 0 THEN a \div b ELSE (0 - a) \div (0 - b)

\* the order of the type names, as CPython 2 compares objects of different
\* types: numbers first, then by the name of the type
TypeRank(value) ==
    CASE TypeName(value) = "int" -> 0
      [] TypeName(value) = "builtin_function_or_method" -> 1
      [] TypeName(value) = "function" -> 2

\* a < b in Python 2.  Two distinct functions of one type compare by
\* address; no expression the specifications enumerate compares two.
less(a, b) ==
    IF a.tag = "int" /\ b.tag = "int" THEN a.n < b.n
    ELSE TypeRank(a) < TypeRank(b)

ApplyReturn(value) == [exc |-> "none", value |-> value]
ApplyRaise(exc) == [exc |-> exc, value |-> None]

\* operator(arg1, arg2), line 168
apply(operator, arg1, arg2) ==
    LET ints == arg1.tag = "int" /\ arg2.tag = "int"
        name == operator.name
    IN  CASE name = <<"+">> ->
               IF ints THEN ApplyReturn(I(arg1.n + arg2.n)) ELSE ApplyRaise("TypeError")
          [] name = <<"-">> ->
               IF ints THEN ApplyReturn(I(arg1.n - arg2.n)) ELSE ApplyRaise("TypeError")
          [] name = <<"*">> ->
               IF ints THEN ApplyReturn(I(arg1.n * arg2.n)) ELSE ApplyRaise("TypeError")
          [] name = <<"/">> ->
               IF ~ints THEN ApplyRaise("TypeError")
               ELSE IF arg2.n = 0 THEN ApplyRaise("ZeroDivisionError")
               ELSE ApplyReturn(I(floordiv(arg1.n, arg2.n)))
          [] name = <<"=">> -> ApplyReturn(I(IF arg1 = arg2 THEN 1 ELSE 0))
          [] name = <<"<">> -> ApplyReturn(I(IF less(arg1, arg2) THEN 1 ELSE 0))
          [] name = <<">">> -> ApplyReturn(I(IF less(arg2, arg1) THEN 1 ELSE 0))

(***************************************************************************)
(* The special forms (lines 111-137).                                      *)
(***************************************************************************)
IF_ == <<"i", "f">>
PRINT_ == <<"p", "r", "i", "n", "t">>
BEGIN_ == <<"b", "e", "g", "i", "n">>

commands == [name \in {IF_, PRINT_, BEGIN_} |->
                CASE name = IF_ -> "if_cmd"
                  [] name = PRINT_ -> "print_cmd"
                  [] name = BEGIN_ -> "begin_cmd"]

\* inspect.getargspec(function)[:2]: the named parameters and the name of
\* the *args parameter
getargspec(function) ==
    CASE function = "if_cmd" ->
           [fixed_args |-> <<"output", "test", "conseq", "alt">>, var_args |-> "None"]
      [] function = "print_cmd" ->
           [fixed_args |-> <<"output", "arg">>, var_args |-> "None"]
      [] function = "begin_cmd" ->
           [fixed_args |-> <<"output", "first">>, var_args |-> "rest"]

check_args_no_maximum(function, args) ==
    LET min_args == Len(Tail(getargspec(function).fixed_args))
    IN  IF Len(args) < min_args THEN "MissingArguments" ELSE "none"

\* the exception check_args raises, or "none"
check_args(function, args) ==
    LET spec == getargspec(function)
        min_args == Len(Tail(spec.fixed_args))
        max_args == min_args
    IN  IF spec.var_args = "None" /\ Len(args) > max_args THEN "TooManyArguments"
        ELSE IF Len(args) < min_args THEN "MissingArguments"
        ELSE "none"

(***************************************************************************)
(* evaluate and the command handlers.  A call returns                      *)
(*   [exc, arg, value, output, evals]                                      *)
(* exc is "none" or the class of the exception raised and arg the value    *)
(* the exception carries; output is the sink after the call, a sequence    *)
(* of the lines written; evals lists, in call order, the position (the     *)
(* path of 0-based indices from the top expression) of every expression    *)
(* evaluate was called on.  path is the position of the call's argument.   *)
(***************************************************************************)
Return(value, output, evals) ==
    [exc |-> "none", arg |-> None, value |-> value, output |-> output, evals |-> evals]
Raise(exc, arg, output, evals) ==
    [exc |-> exc, arg |-> arg, value |-> None, output |-> output, evals |-> evals]

\* the truth value Python gives a value in a conditional expression
truth(value) == IF value.tag = "int" THEN value.n # 0 ELSE TRUE

RECURSIVE evaluate(_, _, _)

if_cmd_both_branches(output, test, conseq, alt, path) ==
    LET t == evaluate(test, output, path \o <<1>>)
    IN  IF t.exc # "none" THEN t
        ELSE LET c == evaluate(conseq, t.output, path \o <<2>>)
                 a == evaluate(alt, c.output, path \o <<3>>)
             IN  IF c.exc # "none" THEN [c EXCEPT !.evals = t.evals \o c.evals]
                 ELSE IF a.exc # "none"
                      THEN [a EXCEPT !.evals = t.evals \o c.evals \o a.evals]
                      ELSE [(IF truth(t.value) THEN c ELSE a) EXCEPT
                               !.output = a.output,
                               !.evals = t.evals \o c.evals \o a.evals]

if_cmd(output, test, conseq, alt, path) ==
    LET t == evaluate(test, output, path \o <<1>>)
    IN  IF t.exc # "none" THEN t
        ELSE LET taken == IF truth(t.value) THEN 2 ELSE 3
                 chosen == IF truth(t.value) THEN conseq ELSE alt
                 r == evaluate(chosen, t.output, path \o <<taken>>)
             IN  [r EXCEPT !.evals = t.evals \o r.evals]

print_cmd_silent(output, arg, path) == evaluate(arg, output, path \o <<1>>)

print_cmd(output, arg, path) ==
    LET r == evaluate(arg, output, path \o <<1>>)
    IN  IF r.exc # "none" THEN r
        ELSE [r EXCEPT !.output = Append(r.output, str(r.value))]

\* the loop of begin_cmd over (first,)+rest, from its i-th expression on
RECURSIVE begin_loop(_, _, _, _, _)
begin_loop(exps, i, path, output, evals) ==
    LET r == evaluate(exps[i], output, path \o <<i>>)
        sofar == evals \o r.evals
    IN  IF r.exc # "none" \/ i = Len(exps) THEN [r EXCEPT !.evals = sofar]
        ELSE begin_loop(exps, i + 1, path, r.output, sofar)

begin_cmd(output, first, rest, path) ==
    begin_loop(<<first>> \o rest, 1, path, output, <<>>)

\* [evaluate(exp, output) for exp in expression], from the i-th element on;
\* exps are the values so far
RECURSIVE comprehension(_, _, _, _, _, _)
comprehension(items, i, path, output, evals, exps) ==
    IF i > Len(items) THEN Return(L(exps), output, evals)
    ELSE LET r == evaluate(items[i], output, path \o <<i - 1>>)
             sofar == evals \o r.evals
         IN  IF r.exc # "none" THEN [r EXCEPT !.evals = sofar]
             ELSE comprehension(items, i + 1, path, r.output, sofar,
                                Append(exps, r.value))

\* lines 157-170, on the values of a non-empty list
apply_operator(exps, output, evals) ==
    LET operator == Head(exps)
        args == Tail(exps)
    IN  IF operator.tag = "op"
        THEN IF Len(args) < 2 THEN Raise("MissingArguments", None, output, evals)
             ELSE IF Len(args) > 2 THEN Raise("TooManyArguments", None, output, evals)
             ELSE LET a == apply(operator, args[1], args[2])
                  IN  IF a.exc # "none" THEN Raise(a.exc, None, output, evals)
                      ELSE Return(a.value, output, evals)
        ELSE Raise("InvalidOperator", operator, output, evals)

evaluate(expr, output, path) ==
    LET here == <<path>>
    IN  IF expr.tag = "int" THEN Return(expr, output, here)
        ELSE IF expr.tag = "str"
        THEN IF expr.s \in DOMAIN operators
             THEN Return(operators[expr.s], output, here)
             ELSE Raise("InvalidOperator", expr, output, here)
        \* expression[0] of an empty list
        ELSE IF Len(expr.items) = 0 THEN Raise("IndexError", None, output, here)
        \* expression[0] in commands hashes the head: a list is unhashable
        ELSE IF expr.items[1].tag = "list" THEN Raise("TypeError", None, output, here)
        ELSE IF expr.items[1].tag = "str" /\ expr.items[1].s \in DOMAIN commands
        THEN LET command == commands[expr.items[1].s]
                 args == Tail(expr.items)
                 bad == check_args(command, args)
             IN  IF bad # "none" THEN Raise(bad, None, output, here)
                 ELSE LET r == CASE command = "if_cmd" ->
                                      if_cmd(output, args[1], args[2], args[3], path)
                                 [] command = "print_cmd" ->
                                      print_cmd(output, args[1], path)
                                 [] command = "begin_cmd" ->
                                      begin_cmd(output, Head(args), Tail(args), path)
                      IN  [r EXCEPT !.evals = here \o r.evals]
        ELSE LET c == comprehension(expr.items, 1, path, output, here, <<>>)
             IN  IF c.exc # "none" THEN c
                 ELSE IF Len(c.value.items) = 0
                      THEN Raise("NullExpression", None, c.output, c.evals)
                      ELSE apply_operator(c.value.items, c.output, c.evals)

(***************************************************************************)
(* repl (lines 172-183).  The names bound at module level: `output`, which *)
(* line 176 passes to evaluate, is not one of them.                        *)
(***************************************************************************)
ModuleGlobals ==
    {"op", "re", "sys", "inspect", "REGEX_INTEGER", "InterpreterError", "InputError",
     "UnexpectedEndOfInput", "UnexpectedRightParen", "EvaluationError",
     "InvalidOperator", "NullExpression", "MissingArguments", "TooManyArguments",
     "tokenize", "parse", "read", "atom", "operators", "check_args", "if_cmd",
     "print_cmd", "begin_cmd", "commands", "evaluate", "repl"}

\* the subclasses of InterpreterError, each with its docstring
InterpreterErrors ==
    [exc \in {"UnexpectedEndOfInput", "UnexpectedRightParen", "InvalidOperator",
              "NullExpression", "MissingArguments", "TooManyArguments"} |->
        CASE exc = "UnexpectedEndOfInput" -> "unexpected end of input"
          [] exc = "UnexpectedRightParen" -> "unexpected )"
          [] exc = "InvalidOperator" -> "invalid operator"
          [] exc = "NullExpression" -> "null expression"
          [] exc = "MissingArguments" -> "missing arguments"
          [] exc = "TooManyArguments" -> "too many arguments"]

\* repr of the value an exception carries: a symbol in quotes, an int bare
repr(value) ==
    IF value.tag = "str" THEN <<"'">> \o value.s \o <<"'">> ELSE str(value)

\* InterpreterError.__str__, lines 34-38
exc_str(exc, arg) ==
    IF arg # None THEN <<InterpreterErrors[exc], ": ">> \o repr(arg)
    ELSE <<InterpreterErrors[exc]>>

\* the exceptions the first except clause of repl catches
Caught(exc) == exc \in DOMAIN InterpreterErrors \/ exc = "ZeroDivisionError"

\* One pass of the loop body on a line raw_input returned: [pc, out], the
\* lines written to stdout and where the loop is afterwards.  The call's
\* arguments are evaluated left to right: parse(...) first, then the name
\* output.
repl_body(text) ==
    LET p == parse(text)
    IN  IF p.exc # "none"
        THEN [pc |-> "prompt", out |-> << <<"! ">> \o exc_str(p.exc, None) >>]
        ELSE IF "output" \notin ModuleGlobals
        THEN [pc |-> "crashed", out |-> <<>>]    \* NameError, not caught
        ELSE LET r == evaluate(p.value, <<>>, <<>>)
             IN  IF r.exc = "none"
                 THEN [pc |-> "prompt", out |-> Append(r.output, str(r.value))]
                 ELSE IF Caught(r.exc)
                 THEN [pc |-> "prompt",
                       out |-> Append(r.output, <<"! ">> \o exc_str(r.exc, r.arg))]
                 ELSE [pc |-> "crashed", out |-> r.output]

(***************************************************************************)
(* Inputs of the specifications.                                           *)
(***************************************************************************)
Chars == {"(", ")", " ", "-", "0", "1"}
Texts == UNION {[1..k -> Chars] : k \in 0..MaxText}

FOO == <<"f", "o", "o">>
ArgForms ==
    {I(0), I(1), S(<<"+">>), S(FOO), L(<<>>),
     L(<<S(PRINT_), I(0)>>), L(<<S(PRINT_), I(1)>>)}
Heads ==
    {S(IF_), S(PRINT_), S(BEGIN_), S(<<"+">>), S(<<"<">>), S(<<"/">>), S(FOO), I(1),
     L(<<S(PRINT_), I(1)>>), L(<<S(BEGIN_), S(<<"+">>)>>)}
ArgSeqs == UNION {[1..k -> ArgForms] : k \in 0..MaxArgs}
Exprs == ArgForms \cup Heads \cup {L(<<h>> \o a) : h \in Heads, a \in ArgSeqs}

ReplLines ==
    { <<>>,
      <<")">>,
      <<"(">>,
      <<"1">>,
      <<"(", ")">>,
      <<"1", " ", ")">>,
      <<"(", "+", " ", "1", " ", "2", ")">>,
      <<"(", "/", " ", "1", " ", "0", ")">>,
      <<"(", "f", "o", "o", " ", "1", " ", "2", ")">> }

Pending == [exc |-> "pending", arg |-> None, value |-> None, output |-> <<>>, evals |-> <<>>]

ReaderIdle ==
    /\ source_code = <<>> /\ tokens = <<>> /\ parsed = <<>>
    /\ consumed = <<>> /\ read_exc = "start" /\ shown = <<>>
EvalIdle == expression = None /\ result = Pending
ReplIdle == pc = "off" /\ line = <<>> /\ event = "none" /\ stdout = <<>>

(***************************************************************************)
(* Spec: evaluate applied to an expression, with an empty output sink.     *)
(***************************************************************************)
Init ==
    /\ expression \in Exprs
    /\ result = Pending
    /\ ReaderIdle /\ ReplIdle

Evaluate ==
    /\ result.exc = "pending"
    /\ result' = evaluate(expression, <<>>, <<>>)
    /\ UNCHANGED <<expression, readerVars, replVars>>

Next == Evaluate

Spec == Init /\ [][Next]_vars

(***************************************************************************)
(* SpecRead: a text is tokenized, then read is called on the token list    *)
(* again and again until it raises; each expression read is handed to      *)
(* print_cmd, which evaluates it and writes its text to a sink.            *)
(***************************************************************************)
InitRead ==
    /\ source_code \in Texts
    /\ tokens = <<>> /\ parsed = <<>> /\ consumed = <<>>
    /\ read_exc = "start" /\ shown = <<>>
    /\ EvalIdle /\ ReplIdle

Tokenize ==
    /\ read_exc = "start"
    /\ tokens' = tokenize(source_code)
    /\ read_exc' = "none"
    /\ UNCHANGED <<source_code, parsed, consumed, shown, evalVars, replVars>>

Read ==
    /\ read_exc = "none"
    /\ LET r == read(tokens)
       IN  /\ tokens' = r.tokens
           /\ read_exc' = r.exc
           /\ parsed' = IF r.exc = "none" THEN Append(parsed, r.value) ELSE parsed
           /\ consumed' = IF r.exc = "none"
                          THEN Append(consumed, Len(tokens) - Len(r.tokens))
                          ELSE consumed
    /\ UNCHANGED <<source_code, shown, evalVars, replVars>>

Show ==
    /\ Len(shown) < Len(parsed)
    /\ shown' = Append(shown, print_cmd(<<>>, parsed[Len(shown) + 1], <<>>).output)
    /\ UNCHANGED <<source_code, tokens, parsed, consumed, read_exc, evalVars, replVars>>

NextRead == Tokenize \/ Read \/ Show

SpecRead == InitRead /\ [][NextRead]_vars

(***************************************************************************)
(* SpecRepl: the loop of repl.  raw_input returns a line, or raises        *)
(* KeyboardInterrupt or EOFError.                                          *)
(***************************************************************************)
InitRepl ==
    /\ pc = "prompt" /\ line = <<>> /\ event = "none" /\ stdout = <<>>
    /\ ReaderIdle /\ EvalIdle

ReplLine ==
    /\ pc = "prompt"
    /\ Len(stdout) < MaxLines
    /\ \E text \in ReplLines :
          LET b == repl_body(text)
          IN  /\ line' = text
              /\ event' = "line"
              /\ pc' = b.pc
              /\ stdout' = stdout \o b.out
    /\ UNCHANGED <<readerVars, evalVars>>

\* print() of Python 2 prints the empty tuple
ReplInterrupt ==
    /\ pc = "prompt"
    /\ event' = "KeyboardInterrupt"
    /\ stdout' = Append(stdout, <<"()">>)
    /\ pc' = "exited"
    /\ UNCHANGED <<line, readerVars, evalVars>>

ReplEOF ==
    /\ pc = "prompt"
    /\ event' = "EOFError"
    /\ pc' = "crashed"
    /\ UNCHANGED <<line, stdout, readerVars, evalVars>>

NextRepl == ReplLine \/ ReplInterrupt \/ ReplEOF

SpecRepl == InitRepl /\ [][NextRepl]_vars

(***************************************************************************)
(* Properties of evaluate, checked under Spec.                             *)
(***************************************************************************)
Evaluated == result.exc # "pending"
IsList(e) == e.tag = "list"
Elements == expression.items
NumArgs == Len(expression.items) - 1
HeadIs(name) ==
    /\ IsList(expression) /\ Len(Elements) >= 1
    /\ Elements[1] = S(name)
IsCommand == HeadIs(IF_) \/ HeadIs(PRINT_) \/ HeadIs(BEGIN_)
IsApplication == IsList(expression) /\ Len(Elements) >= 1 /\ ~IsCommand

\* the i-th element (0-based, as in the source) evaluated on its own,
\* against an empty sink
Alone(i) == evaluate(Elements[i + 1], <<>>, <<i>>)
AllSucceed(from) == \A i \in from..NumArgs : Alone(i).exc = "none"

\* the lines the elements from..upto write, in the order of the elements
RECURSIVE LinesInOrder(_, _)
LinesInOrder(from, upto) ==
    IF from > upto THEN <<>> ELSE Alone(from).output \o LinesInOrder(from + 1, upto)

\* how many calls of evaluate were made on the element at position i
CallsOn(i) == Cardinality({k \in 1..Len(result.evals) : result.evals[k] = <<i>>})
\* whether evaluate was called on element i or anything inside it
Entered(i) ==
    \E k \in 1..Len(result.evals) :
        Len(result.evals[k]) >= 1 /\ result.evals[k][1] = i
NothingEvaluated == result.evals = << <<>> >>

\* C1: evaluating the empty list fails with NullExpression and with no other
\* kind of failure, and writes nothing to the output sink.
C1_EmptyListIsNullExpression ==
    (expression = L(<<>>) /\ Evaluated) =>
        (result.exc = "NullExpression" /\ result.output = <<>>)

ArityError(name, n) ==
    CASE name = IF_ -> IF n < 3 THEN "MissingArguments"
                       ELSE IF n > 3 THEN "TooManyArguments" ELSE "none"
      [] name = PRINT_ -> IF n < 1 THEN "MissingArguments"
                          ELSE IF n > 1 THEN "TooManyArguments" ELSE "none"
      [] name = BEGIN_ -> IF n = 0 THEN "MissingArguments" ELSE "none"

\* C2: a list headed by if, print or begin has its argument count checked
\* before any argument is evaluated: too few arguments (fewer than 3 for if,
\* fewer than 1 for print, none for begin) fail with MissingArguments, too
\* many (more than 3 for if, more than 1 for print) with TooManyArguments,
\* and then no argument was evaluated and the sink is unchanged; begin with
\* one or more arguments passes the check and goes on to its first argument.
C2_ArityCheckedBeforeEvaluation ==
    \A name \in {IF_, PRINT_, BEGIN_} :
        (HeadIs(name) /\ Evaluated) =>
            /\ ArityError(name, NumArgs) # "none" =>
                  /\ result.exc = ArityError(name, NumArgs)
                  /\ NothingEvaluated
                  /\ result.output = <<>>
            /\ ArityError(name, NumArgs) = "none" =>
                  /\ Len(result.evals) >= 2
                  /\ result.evals[2] = <<1>>

C2_Witness ==
    /\ expression = L(<<S(IF_), L(<<S(PRINT_), I(1)>>), I(0), I(0), I(0)>>)
    /\ result.exc = "TooManyArguments"
    /\ result.output = <<>>

\* C3: every non-empty list whose head is not the name of a special form is
\* an application, whatever its head is: its elements, the head first, are
\* evaluated left to right, and when they all evaluate and the first value
\* is not an operator the evaluation fails with InvalidOperator.
C3_EveryOtherListIsAnApplication ==
    (IsApplication /\ Evaluated) =>
        /\ Len(result.evals) >= 2 /\ result.evals[2] = <<0>>
        /\ (AllSucceed(0) /\ Alone(0).value.tag # "op") =>
              /\ result.exc = "InvalidOperator"
              /\ result.output = LinesInOrder(0, NumArgs)

\* C4: an if form with exactly 3 arguments whose test evaluates evaluates
\* the test once, then the consequent when the test value is not zero and
\* the alternative when it is, and returns what that branch returns or
\* raises; the other branch is never evaluated, so it writes nothing.
C4_IfEvaluatesOneBranch ==
    (HeadIs(IF_) /\ NumArgs = 3 /\ Evaluated /\ Alone(1).exc = "none") =>
        LET taken == IF Alone(1).value = I(0) THEN 3 ELSE 2
            other == IF Alone(1).value = I(0) THEN 2 ELSE 3
        IN  /\ CallsOn(1) = 1
            /\ CallsOn(taken) = 1
            /\ ~Entered(other)
            /\ result.exc = Alone(taken).exc
            /\ result.value = Alone(taken).value
            /\ result.output = Alone(1).output \o Alone(taken).output

C4_Witness ==
    /\ expression = L(<<S(IF_), L(<<S(PRINT_), I(0)>>), L(<<S(PRINT_), I(1)>>), I(1)>>)
    /\ result.exc = "none"
    /\ result.value = I(1)
    /\ result.output = << <<"0">> >>

\* the positions of the arguments entered, in call order
ArgumentOrder == [k \in 1..(Len(result.evals) - 1) |-> result.evals[k + 1][1]]
IsPrintOf(e) == IsList(e) /\ Len(e.items) = 2 /\ e.items[1] = S(PRINT_)

\* C5: a begin form with one or more arguments that all evaluate evaluates
\* them one at a time from left to right, so the lines its print arguments
\* write appear in the order of the arguments; each print writes one line,
\* the text of its argument's value, and returns that value; the form's
\* value is the value of the last argument.
C5_BeginInOrder ==
    (HeadIs(BEGIN_) /\ NumArgs >= 1 /\ Evaluated /\ AllSucceed(1)) =>
        /\ result.exc = "none"
        /\ result.value = Alone(NumArgs).value
        /\ result.output = LinesInOrder(1, NumArgs)
        /\ \A i \in 1..NumArgs : CallsOn(i) = 1
        /\ \A k \in 1..(Len(ArgumentOrder) - 1) : ArgumentOrder[k] <= ArgumentOrder[k + 1]
        /\ \A i \in 1..NumArgs :
              (IsPrintOf(Elements[i + 1]) /\ Elements[i + 1].items[2].tag = "int") =>
                  /\ Alone(i).value = Elements[i + 1].items[2]
                  /\ Alone(i).output = << <<DigitChars[Alone(i).value.n + 1]>> >>

C5_Witness ==
    /\ expression = L(<<S(BEGIN_), L(<<S(PRINT_), I(1)>>), L(<<S(PRINT_), I(0)>>), I(1)>>)
    /\ result.value = I(1)
    /\ result.output = << <<"1">>, <<"0">> >>

\* C6: an application whose elements all evaluate and whose first value is
\* an operator applies the operator only when two values remain: none or one
\* fails with MissingArguments, three or more with TooManyArguments, and the
\* count is checked after every element was evaluated, so the lines the
\* elements wrote are in the sink when the arity error is raised.
C6_OperatorTakesTwoValues ==
    (IsApplication /\ Evaluated /\ AllSucceed(0) /\ Alone(0).value.tag = "op") =>
        /\ result.output = LinesInOrder(0, NumArgs)
        /\ NumArgs < 2 => result.exc = "MissingArguments"
        /\ NumArgs > 2 => result.exc = "TooManyArguments"
        /\ NumArgs = 2 =>
              LET a == apply(Alone(0).value, Alone(1).value, Alone(2).value)
              IN  result.exc = a.exc /\ result.value = a.value

(***************************************************************************)
(* Properties of tokenize, read and atom, checked under SpecRead.          *)
(***************************************************************************)
AllTokens == tokenize(source_code)
Count(toks, tok) == Cardinality({i \in 1..Len(toks) : toks[i] = tok})
\* the number of ( still open after the first j tokens
Depth(toks, j) == Count(SubSeq(toks, 1, j), LPAREN) - Count(SubSeq(toks, 1, j), RPAREN)

UnmatchedClose == LET all == AllTokens IN \E j \in 1..Len(all) : Depth(all, j) < 0
UnclosedOpen == LET all == AllTokens IN ~UnmatchedClose /\ Depth(all, Len(all)) > 0

\* parse is tokenize followed by the first call of read
ParseDone == Len(parsed) >= 1 \/ read_exc \notin {"start", "none"}
ParseRaised(exc) == Len(parsed) = 0 /\ read_exc = exc

\* C7: parsing a line fails with UnexpectedRightParen when the line holds a
\* ) that no ( opens, be it the first token or one after a complete
\* expression, and with UnexpectedEndOfInput when a ( is left unclosed.
C7_UnbalancedParensFail ==
    ParseDone =>
        /\ UnmatchedClose => ParseRaised("UnexpectedRightParen")
        /\ UnclosedOpen => ParseRaised("UnexpectedEndOfInput")

\* a text that is one token of the form -?digit+
IsIntegerText(text) ==
    LET body == IF Len(text) > 0 /\ text[1] = "-" THEN SubSeq(text, 2, Len(text)) ELSE text
    IN  Len(body) >= 1 /\ \A i \in 1..Len(body) : body[i] \in Digits
DigitsOf(text) == IF text[1] = "-" THEN SubSeq(text, 2, Len(text)) ELSE text

RECURSIVE Pow10(_)
Pow10(k) == IF k = 0 THEN 1 ELSE 10 * Pow10(k - 1)
RECURSIVE PlaceValueSum(_, _)
PlaceValueSum(body, i) ==
    IF i > Len(body) THEN 0
    ELSE DigitVal(body[i]) * Pow10(Len(body) - i) + PlaceValueSum(body, i + 1)
NumericValue(text) ==
    IF text[1] = "-" THEN 0 - PlaceValueSum(DigitsOf(text), 1)
    ELSE PlaceValueSum(DigitsOf(text), 1)

RECURSIVE StripZeros(_)
StripZeros(body) ==
    IF Len(body) > 1 /\ body[1] = "0" THEN StripZeros(Tail(body)) ELSE body
\* the text without its leading zeros, and without the sign of a zero
Canonical(text) ==
    LET body == StripZeros(DigitsOf(text))
    IN  IF text[1] = "-" /\ body # <<"0">> THEN <<"-">> \o body ELSE body

\* C9 as claimed: reading an integer token alone gives the int of its exact
\* value, and rendering that int gives the token back, except that -0
\* renders as 0.
C9_RenderingReproducesToken ==
    IsIntegerText(source_code) =>
        /\ Len(parsed) >= 1 => parsed[1] = I(NumericValue(source_code))
        /\ Len(shown) >= 1 =>
              \/ shown[1] = <<source_code>>
              \/ source_code = <<"-", "0">> /\ shown[1] = << <<"0">> >>

\* C9 as amended: reading an integer token alone gives the int of its exact
\* value, and rendering that int gives the token without its leading zeros
\* and, when the value is zero, without its minus sign.
C9_RenderingIsCanonical ==
    IsIntegerText(source_code) =>
        /\ Len(parsed) >= 1 => parsed[1] = I(NumericValue(source_code))
        /\ Len(shown) >= 1 => shown[1] = <<Canonical(source_code)>>

C9_Witness ==
    /\ source_code = <<"-", "0", "1", "0">>
    /\ parsed = <<I(0 - 10)>>
    /\ shown = << << <<"-", "1", "0">> >> >>

\* where the ( opened before position j is closed, depth being the number
\* of ( open at j; 0 when it is not closed
RECURSIVE ClosedAt(_, _, _)
ClosedAt(toks, j, depth) ==
    IF j > Len(toks) THEN 0
    ELSE LET d == IF toks[j] = LPAREN THEN depth + 1
                  ELSE IF toks[j] = RPAREN THEN depth - 1 ELSE depth
         IN  IF d = 0 THEN j ELSE ClosedAt(toks, j + 1, d)

\* the length of the first complete expression of toks: one atom, or a (
\* up to the ) that closes it; 0 when there is none
ExpressionLength(toks) ==
    IF Len(toks) = 0 \/ toks[1] = RPAREN THEN 0
    ELSE IF toks[1] # LPAREN THEN 1
    ELSE ClosedAt(toks, 1, 0)

\* The successful calls of read from the k-th on each popped one complete
\* expression and returned it, left being the tokens the calls before the
\* k-th left; after the last, the token list is what is left.
RECURSIVE PopsOneExpressionFrom(_, _)
PopsOneExpressionFrom(k, left) ==
    IF k > Len(parsed)
    THEN read_exc = "none" => tokens = left
    ELSE LET popped == SubSeq(left, 1, consumed[k])
         IN  /\ consumed[k] >= 1
             /\ consumed[k] = ExpressionLength(left)
             /\ Count(popped, LPAREN) = Count(popped, RPAREN)
             /\ read(popped) = ReadReturn(parsed[k], <<>>)
             /\ PopsOneExpressionFrom(k + 1, SubSeq(left, consumed[k] + 1, Len(left)))

\* C10: a call of read that succeeds pops exactly the tokens of the first
\* complete expression (one atom, or a ( up to its matching ), with as many
\* ( as ) popped) and leaves the later tokens in place and in order, so the
\* successive calls return the successive top-level expressions.
C10_ReadPopsOneExpression ==
    read_exc # "start" =>
        /\ Len(consumed) = Len(parsed)
        /\ PopsOneExpressionFrom(1, AllTokens)

C10_Witness ==
    /\ source_code = <<"(", "0", ")", "1">>
    /\ parsed = <<L(<<I(0)>>), I(1)>>
    /\ consumed = <<3, 1>>
    /\ tokens = <<>>
    /\ read_exc = "none"

(***************************************************************************)
(* The property of the loop, checked under SpecRepl.                       *)
(***************************************************************************)
\* C8: for every line the loop reads, whether it evaluates, raises a syntax
\* error, raises an evaluation error or divides by zero, the loop writes one
\* result line (a line starting with "! " for an error) and goes on to
\* read the next line.
C8_LoopGoesOn ==
    [][(pc = "prompt" /\ event' = "line") =>
          /\ pc' = "prompt"
          /\ Len(stdout') = Len(stdout) + 1
          /\ parse(line').exc # "none" => stdout'[Len(stdout')][1] = "! "]_vars

=============================================================================
